---- MODULE Spec2Model ----
(***************************************************************************)
(* OCI user policy analyzer (src/oci-policy-analyzer.py).                  *)
(*                                                                         *)
(* One OCIPolicyAnalyzer instance runs analyze_user_policies once.  The    *)
(* identity service is the environment: every call to it either raises or  *)
(* returns data, chosen nondeterministically.  Text is modelled as         *)
(* sequences of one-character strings so that lower(), the substring test  *)
(* and the compartment regular expression are computed as Python does.     *)
(***************************************************************************)
EXTENDS Integers, Sequences, FiniteSets, Bags, TLC

(***************************************************************************)
(* Bounds of the model.                                                    *)
(***************************************************************************)
\* longest membership list list_user_group_memberships returns
MaxMemberships ==
    2
\* longest compartment list list_compartments returns
MaxCompartments ==
    2
\* longest policy list list_policies returns
MaxPolicies ==
    2

(***************************************************************************)
(* Text literals of the program and of the modelled tenancy.               *)
(***************************************************************************)

\* "ocid1.tenancy.t" -- config["tenancy"]
TenancyId ==
    <<"o","c","i","d","1",".","t","e","n","a","n","c","y",".","t">>

\* "root"
ROOT ==
    <<"r","o","o","t">>

\* "group "
GROUP_SP ==
    <<"g","r","o","u","p"," ">>

\* "'"
SQ ==
    <<"'">>

\* """
DQ ==
    <<"\"">>

\* "compartment"
KW_COMPARTMENT ==
    <<"c","o","m","p","a","r","t","m","e","n","t">>

\* "ocid1.compartment."
OCID_COMPARTMENT ==
    <<"o","c","i","d","1",".","c","o","m","p","a","r","t","m","e","n","t",".">>

\* "compartment "
COMPARTMENT_SP ==
    <<"c","o","m","p","a","r","t","m","e","n","t"," ">>

\* "ocid1.compartment.a"
CompA ==
    <<"o","c","i","d","1",".","c","o","m","p","a","r","t","m","e","n","t",".","a">>

\* "ocid1.compartment.b"
CompB ==
    <<"o","c","i","d","1",".","c","o","m","p","a","r","t","m","e","n","t",".","b">>

\* "Finance"
Finance ==
    <<"F","i","n","a","n","c","e">>

\* "Ops"
Ops ==
    <<"O","p","s">>

\* "Admins"
Admins ==
    <<"A","d","m","i","n","s">>

\* "Dev"
Dev ==
    <<"D","e","v">>

\* "Net"
Net ==
    <<"N","e","t">>

\* policy statements of the modelled tenancy

\* "Allow Group Admins to use x in compartment ocid1.compartment.a"
T1 ==
    <<"A","l","l","o","w"," ","G","r","o","u","p"," ","A","d","m","i","n","s"," ","t","o"," ","u","s","e"," ","x"," ","i","n"," ","c","o","m","p","a","r","t","m","e","n","t"," ","o","c","i","d","1",".","c","o","m","p","a","r","t","m","e","n","t",".","a">>

\* "allow group 'dev' to read y in COMPARTMENT  ocid1.compartment.b"
T2 ==
    <<"a","l","l","o","w"," ","g","r","o","u","p"," ","'","d","e","v","'"," ","t","o"," ","r","e","a","d"," ","y"," ","i","n"," ","C","O","M","P","A","R","T","M","E","N","T"," "," ","o","c","i","d","1",".","c","o","m","p","a","r","t","m","e","n","t",".","b">>

\* "allow group "ADMINS", group Dev to read z"
T3 ==
    <<"a","l","l","o","w"," ","g","r","o","u","p"," ","\"","A","D","M","I","N","S","\"",","," ","g","r","o","u","p"," ","D","e","v"," ","t","o"," ","r","e","a","d"," ","z">>

\* "allow group Developers to use w"
T4 ==
    <<"a","l","l","o","w"," ","g","r","o","u","p"," ","D","e","v","e","l","o","p","e","r","s"," ","t","o"," ","u","s","e"," ","w">>

\* "allow any-user to read v in compartment ocid1.compartment.b"
T5 ==
    <<"a","l","l","o","w"," ","a","n","y","-","u","s","e","r"," ","t","o"," ","r","e","a","d"," ","v"," ","i","n"," ","c","o","m","p","a","r","t","m","e","n","t"," ","o","c","i","d","1",".","c","o","m","p","a","r","t","m","e","n","t",".","b">>

\* "allow dynamic-group Admins to use u"
T6 ==
    <<"a","l","l","o","w"," ","d","y","n","a","m","i","c","-","g","r","o","u","p"," ","A","d","m","i","n","s"," ","t","o"," ","u","s","e"," ","u">>

\* "allow group  Admins to use t"
T7 ==
    <<"a","l","l","o","w"," ","g","r","o","u","p"," "," ","A","d","m","i","n","s"," ","t","o"," ","u","s","e"," ","t">>

\* "allow group Dev to use s in compartment ocid1.compartment.a, compartment ocid1.compartment.a"
T8 ==
    <<"a","l","l","o","w"," ","g","r","o","u","p"," ","D","e","v"," ","t","o"," ","u","s","e"," ","s"," ","i","n"," ","c","o","m","p","a","r","t","m","e","n","t"," ","o","c","i","d","1",".","c","o","m","p","a","r","t","m","e","n","t",".","a",","," ","c","o","m","p","a","r","t","m","e","n","t"," ","o","c","i","d","1",".","c","o","m","p","a","r","t","m","e","n","t",".","a">>

\* "allow group Net to use r"
T9 ==
    <<"a","l","l","o","w"," ","g","r","o","u","p"," ","N","e","t"," ","t","o"," ","u","s","e"," ","r">>

(***************************************************************************)
(* Python text operations.                                                 *)
(***************************************************************************)
UpperLetters ==
    <<"A","B","C","D","E","F","G","H","I","J","K","L","M",
      "N","O","P","Q","R","S","T","U","V","W","X","Y","Z">>

LowerLetters ==
    <<"a","b","c","d","e","f","g","h","i","j","k","l","m",
      "n","o","p","q","r","s","t","u","v","w","x","y","z">>

Digits ==
    {"0","1","2","3","4","5","6","7","8","9"}

Range(f) ==
    {f[i] : i \in DOMAIN f}

\* the characters str.lower() changes, with their images
LowerMap ==
    [c \in Range(UpperLetters) |->
        LowerLetters[CHOOSE i \in 1..26 : UpperLetters[i] = c]]

\* str.lower() on one character
LowerChar(c) ==
    IF c \in DOMAIN LowerMap THEN LowerMap[c] ELSE c

\* str.lower()
lower(s) ==
    [i \in 1..Len(s) |-> LowerChar(s[i])]

\* the Python test "pattern in text" on strings
StrIn(pattern, text) ==
    \E i \in 0..(Len(text) - Len(pattern)) :
        SubSeq(text, i + 1, i + Len(pattern)) = pattern

\* \s of the regular expression
WhiteSpace ==
    {" ", "\t", "\n", "\r"}

\* [a-zA-Z0-9\._-] of the regular expression
OcidChars ==
    Range(UpperLetters) \cup Range(LowerLetters) \cup Digits \cup {".", "_", "-"}

\* index of the last character of the longest run of characters of cs that
\* starts at index i of s (i - 1 when s[i] is not in cs): a greedy "+"
RECURSIVE RunEnd(_, _, _)
RunEnd(s, i, cs) ==
    IF i <= Len(s) /\ s[i] \in cs THEN RunEnd(s, i + 1, cs) ELSE i - 1

NoMatch ==
    [found |-> FALSE, start |-> 0, end |-> 0, id |-> <<>>]

\* compartment_pattern matched with re.IGNORECASE at index i of s
MatchAt(s, i) ==
    LET kwEnd  == i + Len(KW_COMPARTMENT) - 1
        wsEnd  == RunEnd(s, kwEnd + 1, WhiteSpace)
        litEnd == wsEnd + Len(OCID_COMPARTMENT)
        idEnd  == RunEnd(s, litEnd + 1, OcidChars)
    IN  IF /\ kwEnd <= Len(s)
           /\ lower(SubSeq(s, i, kwEnd)) = KW_COMPARTMENT
           /\ wsEnd > kwEnd
           /\ litEnd <= Len(s)
           /\ lower(SubSeq(s, wsEnd + 1, litEnd)) = OCID_COMPARTMENT
           /\ idEnd > litEnd
        THEN [found |-> TRUE, start |-> i, end |-> idEnd,
              id |-> SubSeq(s, wsEnd + 1, idEnd)]
        ELSE NoMatch

\* the leftmost match of compartment_pattern in s at or after index pos, as
\* re.sub finds it
RECURSIVE Search(_, _)
Search(s, pos) ==
    IF pos > Len(s) THEN NoMatch
    ELSE IF MatchAt(s, pos).found THEN MatchAt(s, pos)
    ELSE Search(s, pos + 1)

\* replace_compartment: the replacement text for one match
replace_compartment(compartment_name) ==
    COMPARTMENT_SP \o compartment_name

\* group_patterns without the double-quoted form
group_patterns_two(group_name) ==
    << GROUP_SP \o lower(group_name),
       GROUP_SP \o SQ \o lower(group_name) \o SQ,
       GROUP_SP \o SQ \o lower(group_name) \o SQ >>

\* group_patterns of one group name
group_patterns(group_name) ==
    << GROUP_SP \o lower(group_name),
       GROUP_SP \o SQ \o lower(group_name) \o SQ,
       GROUP_SP \o DQ \o lower(group_name) \o DQ >>

\* any(group_patterns): the truth of the non-empty pattern strings
any_pattern_truthy(statement_lower, group_name) ==
    \E k \in 1..3 : group_patterns(group_name)[k] # <<>>

\* any(pattern in statement_lower for pattern in group_patterns)
any_pattern_in(statement_lower, group_name) ==
    \E k \in 1..3 : StrIn(group_patterns(group_name)[k], statement_lower)

\* the loop over group_names with its break: the number of records the loop
\* appends for one statement
RECURSIVE records_for_statement(_, _)
records_for_statement(statement, names) ==
    IF names = {} THEN 0
    ELSE LET group_name == CHOOSE g \in names : TRUE
         IN  IF any_pattern_in(lower(statement), group_name)
             THEN 1
             ELSE records_for_statement(statement, names \ {group_name})

(***************************************************************************)
(* The identity service: what its calls can answer.  A response is a       *)
(* record: ok = FALSE when the call raises, else data is response.data.    *)
(***************************************************************************)
Raises ==
    [ok |-> FALSE, data |-> <<>>]

Returns(data) ==
    [ok |-> TRUE, data |-> data]

\* the sequences without repetition of at most n elements of S
DistinctSeqs(S, n) ==
    {s \in UNION {[1..k -> S] : k \in 0..n} :
        \A i, j \in DOMAIN s : i # j => s[i] # s[j]}

\* the prefixes of at most n elements of the sequence s
Prefixes(s, n) ==
    {SubSeq(s, 1, k) : k \in 0..(IF n < Len(s) THEN n ELSE Len(s))}

GroupIds ==
    {"g1", "g2"}

\* get_group(group_id).data
Group(group_id) ==
    [id |-> group_id, name |-> IF group_id = "g1" THEN Admins ELSE Dev]

GroupNames ==
    {Admins, Dev, Net}

CompartmentIds ==
    {CompA, CompB}

CompartmentNames ==
    {Finance, Ops}

Policy(name, compartment_id, statements) ==
    [name |-> name, compartment_id |-> compartment_id, statements |-> statements]

\* the policies attached to each compartment of the modelled tenancy
PoliciesOf(compartment_id) ==
    IF compartment_id = CompA THEN
        << Policy("FinPolicy", CompA, <<T1, T5, T3>>),
           Policy("DevPolicy", CompA, <<T2, T4>>),
           Policy("NetPolicy", CompA, <<T9>>) >>
    ELSE IF compartment_id = CompB THEN
        << Policy("FinPolicy", CompB, <<T4, T4>>),
           Policy("Audit", CompB, <<T5, T7>>) >>
    ELSE
        << Policy("RootPolicy", TenancyId, <<T6, T9>>),
           Policy("Tenancy", TenancyId, <<T8>>) >>

\* responses of list_user_group_memberships: the group ids of response.data
MembershipResponses ==
    {Raises} \cup {Returns(m) : m \in DistinctSeqs(GroupIds, MaxMemberships)}

\* responses of list_compartments
CompartmentResponses ==
    {Raises} \cup
    {Returns([i \in DOMAIN s |-> [id |-> s[i]]]) :
        s \in DistinctSeqs(CompartmentIds, MaxCompartments)}

\* responses of list_policies(compartment_id)
PolicyResponses(compartment_id) ==
    {Raises} \cup
    {Returns(p) : p \in Prefixes(PoliciesOf(compartment_id), MaxPolicies)}

\* responses of get_compartment(compartment_id)
NameResponses ==
    {Raises} \cup {Returns(n) : n \in CompartmentNames}

(***************************************************************************)
(* The methods of OCIPolicyAnalyzer, as functions of the service's answers.*)
(***************************************************************************)
\* get_compartment_name that does not store the name it looked up
get_compartment_name_no_store(cache, compartment_id, response) ==
    IF compartment_id \in DOMAIN cache THEN
        [name |-> cache[compartment_id], cache |-> cache,
         called |-> FALSE, warned |-> FALSE]
    ELSE IF compartment_id = TenancyId THEN
        [name |-> ROOT, cache |-> (compartment_id :> ROOT) @@ cache,
         called |-> FALSE, warned |-> FALSE]
    ELSE IF response.ok THEN
        [name |-> response.data, cache |-> cache,
         called |-> TRUE, warned |-> FALSE]
    ELSE
        [name |-> compartment_id, cache |-> cache,
         called |-> TRUE, warned |-> TRUE]

\* get_compartment_name that stores the fallback of a failed lookup
get_compartment_name_store_fallback(cache, compartment_id, response) ==
    IF compartment_id \in DOMAIN cache THEN
        [name |-> cache[compartment_id], cache |-> cache,
         called |-> FALSE, warned |-> FALSE]
    ELSE IF compartment_id = TenancyId THEN
        [name |-> ROOT, cache |-> (compartment_id :> ROOT) @@ cache,
         called |-> FALSE, warned |-> FALSE]
    ELSE IF response.ok THEN
        [name |-> response.data,
         cache |-> (compartment_id :> response.data) @@ cache,
         called |-> TRUE, warned |-> FALSE]
    ELSE
        [name |-> compartment_id,
         cache |-> (compartment_id :> compartment_id) @@ cache,
         called |-> TRUE, warned |-> TRUE]

\* get_compartment_name that looks the tenancy id up like any other id
get_compartment_name_no_root(cache, compartment_id, response) ==
    IF compartment_id \in DOMAIN cache THEN
        [name |-> cache[compartment_id], cache |-> cache,
         called |-> FALSE, warned |-> FALSE]
    ELSE IF response.ok THEN
        [name |-> response.data,
         cache |-> (compartment_id :> response.data) @@ cache,
         called |-> TRUE, warned |-> FALSE]
    ELSE
        [name |-> compartment_id, cache |-> cache,
         called |-> TRUE, warned |-> TRUE]

\* get_compartment_name that does not consult the cache before the lookup
get_compartment_name_no_hit(cache, compartment_id, response) ==
    IF compartment_id = TenancyId THEN
        [name |-> ROOT, cache |-> (compartment_id :> ROOT) @@ cache,
         called |-> FALSE, warned |-> FALSE]
    ELSE IF response.ok THEN
        [name |-> response.data,
         cache |-> (compartment_id :> response.data) @@ cache,
         called |-> TRUE, warned |-> FALSE]
    ELSE
        [name |-> compartment_id, cache |-> cache,
         called |-> TRUE, warned |-> TRUE]

\* get_compartment_name: the name returned, the cache afterwards, whether
\* the service was called and whether the warning was printed
get_compartment_name(cache, compartment_id, response) ==
    IF compartment_id \in DOMAIN cache THEN
        [name |-> cache[compartment_id], cache |-> cache,
         called |-> FALSE, warned |-> FALSE]
    ELSE IF compartment_id = TenancyId THEN
        [name |-> ROOT, cache |-> (compartment_id :> ROOT) @@ cache,
         called |-> FALSE, warned |-> FALSE]
    ELSE IF response.ok THEN
        [name |-> response.data,
         cache |-> (compartment_id :> response.data) @@ cache,
         called |-> TRUE, warned |-> FALSE]
    ELSE
        [name |-> compartment_id, cache |-> cache,
         called |-> TRUE, warned |-> TRUE]

\* get_all_compartments
get_all_compartments(response) ==
    IF response.ok THEN response.data ELSE <<>>

\* all_compartment_ids with the tenancy id put first
scan_list_root_first(compartments) ==
    <<TenancyId>> \o [i \in DOMAIN compartments |-> compartments[i].id]

\* all_compartment_ids of analyze_user_policies
scan_list(compartments) ==
    [i \in DOMAIN compartments |-> compartments[i].id] \o <<TenancyId>>

\* get_user_groups whose handler returns the groups fetched so far
get_user_groups_partial(response, fetched) ==
    IF ~response.ok THEN <<>>
    ELSE [i \in 1..fetched |-> Group(response.data[i])]

\* get_user_groups: fetched is the number of get_group calls that return
\* before one raises (all of them when fetched = Len(response.data))
get_user_groups(response, fetched) ==
    IF ~response.ok THEN <<>>
    ELSE IF fetched < Len(response.data) THEN <<>>
    ELSE [i \in DOMAIN response.data |-> Group(response.data[i])]

\* get_policies_in_compartment without its exception handler
get_policies_in_compartment_unhandled(response) ==
    [raised |-> ~response.ok,
     policies |-> IF response.ok THEN response.data ELSE <<>>]

\* get_policies_in_compartment: raised tells whether an exception leaves it
get_policies_in_compartment(response) ==
    [raised |-> FALSE,
     policies |-> IF response.ok THEN response.data ELSE <<>>]

\* the grouping with a set of statements per key: a text already under the
\* key is not added again
group_append_unique(entries, record) ==
    LET key == <<record[1], record[2]>>
    IN  IF \E i \in DOMAIN entries : entries[i].key = key
        THEN [i \in DOMAIN entries |->
                 IF entries[i].key = key
                    /\ \A j \in DOMAIN entries[i].statements :
                           entries[i].statements[j] # record[3]
                 THEN [key |-> key,
                       statements |-> Append(entries[i].statements, record[3])]
                 ELSE entries[i]]
        ELSE Append(entries, [key |-> key, statements |-> <<record[3]>>])

\* policy_groups[(policy_name, compartment_name)].append(statement) on the
\* insertion-ordered defaultdict, kept as a sequence of entries
group_append(entries, record) ==
    LET key == <<record[1], record[2]>>
    IN  IF \E i \in DOMAIN entries : entries[i].key = key
        THEN [i \in DOMAIN entries |->
                 IF entries[i].key = key
                 THEN [key |-> key,
                       statements |-> Append(entries[i].statements, record[3])]
                 ELSE entries[i]]
        ELSE Append(entries, [key |-> key, statements |-> <<record[3]>>])

\* the grouping loop of analyze_user_policies over the first n records
RECURSIVE group_first(_, _)
group_first(records, n) ==
    IF n = 0 THEN <<>>
    ELSE group_append(group_first(records, n - 1), records[n])

group_by_policy(records) ==
    group_first(records, Len(records))

(***************************************************************************)
(* State of one run.                                                       *)
(***************************************************************************)
VARIABLES
    pc,                       \* position in analyze_user_policies
    outcome,                  \* how the run ended: which message main printed
    groups,                   \* groups returned by get_user_groups
    group_names,              \* {group.name for group in groups}
    all_compartment_ids,      \* the scan list
    ci,                       \* index of compartment_id in the scan list
    policies,                 \* policies of the compartment being scanned
    pi,                       \* index of policy in policies
    policy_compartment_name,  \* of the policy being filtered
    si,                       \* index of statement in policy.statements
    translated,               \* output of re.sub built so far
    tr_pos,                   \* position of re.sub in the statement
    relevant_policies,        \* result list of filter_policies_for_groups
    all_relevant_policies,    \* the flat list of records
    compartment_cache,        \* self.compartment_cache
    policy_groups,            \* the grouped report, in insertion order
    \* history of the calls made, kept for the properties
    memberships,              \* response of list_user_group_memberships
    groups_fetched,           \* number of get_group calls that returned
    list_compartments_calls,  \* responses of the list_compartments calls
    list_policies_calls,      \* compartment ids passed to list_policies
    fetched,                  \* responses of the list_policies calls
    resolutions,              \* bag: get_compartment_name calls per id
    lookups_ok,               \* bag: get_compartment calls that returned
    lookups_failed,           \* bag: get_compartment calls that raised
    lookup_names,             \* <<id, name>> pairs get_compartment returned
    warnings,                 \* bag: "Could not resolve" warnings per id
    last_resolved             \* id and result of the last get_compartment_name

ctl ==
    <<pc, outcome>>

user ==
    <<groups, group_names, memberships, groups_fetched>>

scan ==
    <<all_compartment_ids, ci, list_compartments_calls>>

fetch ==
    <<policies, list_policies_calls, fetched>>

filter ==
    <<pi, policy_compartment_name, si, translated, tr_pos, relevant_policies>>

resolver ==
    <<compartment_cache, resolutions, lookups_ok, lookups_failed,
      lookup_names, warnings, last_resolved>>

result ==
    <<all_relevant_policies, policy_groups>>

vars ==
    <<ctl, user, scan, fetch, filter, resolver, result>>

NotResolved ==
    [id |-> <<>>, name |-> <<>>]

\* state after __init__, before any call
Fresh ==
    /\ outcome = "running"
    /\ groups = <<>>
    /\ group_names = {}
    /\ all_compartment_ids = <<>>
    /\ ci = 1
    /\ policies = <<>>
    /\ pi = 1
    /\ policy_compartment_name = <<>>
    /\ si = 1
    /\ translated = <<>>
    /\ tr_pos = 1
    /\ relevant_policies = <<>>
    /\ all_relevant_policies = <<>>
    /\ compartment_cache = <<>>
    /\ policy_groups = <<>>
    /\ memberships = Raises
    /\ groups_fetched = 0
    /\ list_compartments_calls = <<>>
    /\ list_policies_calls = <<>>
    /\ fetched = <<>>
    /\ resolutions = EmptyBag
    /\ lookups_ok = EmptyBag
    /\ lookups_failed = EmptyBag
    /\ lookup_names = {}
    /\ warnings = EmptyBag
    /\ last_resolved = NotResolved

Init ==
    /\ pc = "start"
    /\ Fresh

(***************************************************************************)
(* analyze_user_policies, one step per call of the identity service or     *)
(* per loop iteration.                                                     *)
(***************************************************************************)
\* groups = self.get_user_groups(user_id); if not groups: return
GetUserGroups ==
    /\ pc = "start"
    /\ \E response \in MembershipResponses :
       \E n \in 0..Len(response.data) :
          LET gs == get_user_groups(response, n)
          IN  /\ memberships' = response
              /\ groups_fetched' = n
              /\ groups' = gs
              /\ IF gs = <<>>
                 THEN /\ pc' = "done"
                      /\ outcome' = "no_groups"
                      /\ group_names' = group_names
                 ELSE /\ pc' = "compartments"
                      /\ outcome' = outcome
                      /\ group_names' = {gs[i].name : i \in DOMAIN gs}
    /\ UNCHANGED <<scan, fetch, filter, resolver, result>>

\* compartments = self.get_all_compartments(); all_compartment_ids = ...
GetAllCompartments ==
    /\ pc = "compartments"
    /\ \E response \in CompartmentResponses :
          /\ list_compartments_calls' = Append(list_compartments_calls, response)
          /\ all_compartment_ids' = scan_list(get_all_compartments(response))
    /\ ci' = 1
    /\ pc' = "scan"
    /\ UNCHANGED <<outcome, user, fetch, filter, resolver, result>>

\* policies = self.get_policies_in_compartment(compartment_id), then entry
\* into filter_policies_for_groups; an exception leaving it ends in main
GetPolicies ==
    /\ pc = "scan"
    /\ ci <= Len(all_compartment_ids)
    /\ \E response \in PolicyResponses(all_compartment_ids[ci]) :
          LET r == get_policies_in_compartment(response)
          IN  /\ list_policies_calls' =
                     Append(list_policies_calls, all_compartment_ids[ci])
              /\ fetched' = Append(fetched, response)
              /\ IF r.raised
                 THEN /\ pc' = "done"
                      /\ outcome' = "error"
                      /\ UNCHANGED <<policies, filter>>
                 ELSE /\ pc' = "policy"
                      /\ outcome' = outcome
                      /\ policies' = r.policies
                      /\ pi' = 1
                      /\ relevant_policies' = <<>>
                      /\ UNCHANGED <<policy_compartment_name, si,
                                     translated, tr_pos>>
    /\ UNCHANGED <<user, scan, resolver, result>>

\* one call of get_compartment_name with the service's answer, and its trace
Resolve(compartment_id, response) ==
    LET r == get_compartment_name(compartment_cache, compartment_id, response)
    IN  /\ compartment_cache' = r.cache
        /\ resolutions' = resolutions (+) SetToBag({compartment_id})
        /\ lookups_ok' = IF r.called /\ response.ok
                         THEN lookups_ok (+) SetToBag({compartment_id})
                         ELSE lookups_ok
        /\ lookups_failed' = IF r.called /\ ~response.ok
                             THEN lookups_failed (+) SetToBag({compartment_id})
                             ELSE lookups_failed
        /\ lookup_names' = IF r.called /\ response.ok
                           THEN lookup_names \cup {<<compartment_id, response.data>>}
                           ELSE lookup_names
        /\ warnings' = IF r.warned
                       THEN warnings (+) SetToBag({compartment_id})
                       ELSE warnings
        /\ last_resolved' = [id |-> compartment_id, name |-> r.name]

\* policy_compartment_name = self.get_compartment_name(policy.compartment_id)
ResolvePolicyCompartment ==
    /\ pc = "policy"
    /\ pi <= Len(policies)
    /\ \E response \in NameResponses :
          /\ Resolve(policies[pi].compartment_id, response)
          /\ policy_compartment_name' =
                 get_compartment_name(compartment_cache,
                                      policies[pi].compartment_id, response).name
    /\ si' = 1
    /\ pc' = "statement"
    /\ UNCHANGED <<outcome, user, scan, fetch, pi, translated, tr_pos,
                   relevant_policies, result>>

\* return relevant_policies; all_relevant_policies.extend(relevant_policies)
FilterReturn ==
    /\ pc = "policy"
    /\ pi > Len(policies)
    /\ all_relevant_policies' = all_relevant_policies \o relevant_policies
    /\ ci' = ci + 1
    /\ pc' = "scan"
    /\ UNCHANGED <<outcome, user, all_compartment_ids, list_compartments_calls,
                   fetch, filter, resolver, policy_groups>>

\* a statement that mentions none of the group names: next statement
SkipStatement ==
    /\ pc = "statement"
    /\ si <= Len(policies[pi].statements)
    /\ records_for_statement(policies[pi].statements[si], group_names) = 0
    /\ si' = si + 1
    /\ UNCHANGED <<ctl, user, scan, fetch, pi, policy_compartment_name,
                   translated, tr_pos, relevant_policies, resolver, result>>

\* a statement that mentions a group name: entry into
\* translate_compartment_ids_in_statement
MatchStatement ==
    /\ pc = "statement"
    /\ si <= Len(policies[pi].statements)
    /\ records_for_statement(policies[pi].statements[si], group_names) > 0
    /\ translated' = <<>>
    /\ tr_pos' = 1
    /\ pc' = "translate"
    /\ UNCHANGED <<outcome, user, scan, fetch, pi, policy_compartment_name,
                   si, relevant_policies, resolver, result>>

\* re.sub: the next match of compartment_pattern is replaced
ReplaceCompartment ==
    /\ pc = "translate"
    /\ LET statement == policies[pi].statements[si]
           m == Search(statement, tr_pos)
       IN  /\ m.found
           /\ \E response \in NameResponses :
                 /\ Resolve(m.id, response)
                 /\ translated' =
                        translated
                        \o SubSeq(statement, tr_pos, m.start - 1)
                        \o replace_compartment(
                               get_compartment_name(compartment_cache, m.id,
                                                    response).name)
           /\ tr_pos' = m.end + 1
    /\ UNCHANGED <<ctl, user, scan, fetch, pi, policy_compartment_name, si,
                   relevant_policies, result>>

\* re.sub returns; relevant_policies.append((...)); break
AppendRelevant ==
    /\ pc = "translate"
    /\ LET statement == policies[pi].statements[si]
           translated_statement ==
               translated \o SubSeq(statement, tr_pos, Len(statement))
       IN  /\ ~Search(statement, tr_pos).found
           /\ relevant_policies' =
                  Append(relevant_policies,
                         <<policies[pi].name, policy_compartment_name,
                           translated_statement>>)
    /\ si' = si + 1
    /\ pc' = "statement"
    /\ UNCHANGED <<outcome, user, scan, fetch, pi, policy_compartment_name,
                   translated, tr_pos, resolver, result>>

\* the statements of the policy are exhausted: next policy
NextPolicy ==
    /\ pc = "statement"
    /\ si > Len(policies[pi].statements)
    /\ pi' = pi + 1
    /\ pc' = "policy"
    /\ UNCHANGED <<outcome, user, scan, fetch, policy_compartment_name, si,
                   translated, tr_pos, relevant_policies, resolver, result>>

\* the scan loop is exhausted: the results are grouped and displayed
Report ==
    /\ pc = "scan"
    /\ ci > Len(all_compartment_ids)
    /\ IF all_relevant_policies = <<>>
       THEN /\ outcome' = "no_statements"
            /\ policy_groups' = policy_groups
       ELSE /\ outcome' = "report"
            /\ policy_groups' = group_by_policy(all_relevant_policies)
    /\ pc' = "done"
    /\ UNCHANGED <<user, scan, fetch, filter, resolver, all_relevant_policies>>

Next ==
    \/ GetUserGroups
    \/ GetAllCompartments
    \/ GetPolicies
    \/ ResolvePolicyCompartment
    \/ SkipStatement
    \/ MatchStatement
    \/ ReplaceCompartment
    \/ AppendRelevant
    \/ NextPolicy
    \/ FilterReturn
    \/ Report

Spec ==
    Init /\ [][Next]_vars

(***************************************************************************)
(* filter_policies_for_groups called on its own: any policy list of the    *)
(* tenancy, any set of group names (the empty set included).               *)
(***************************************************************************)
FilterInputs ==
    UNION {{<<c, p>> : p \in Prefixes(PoliciesOf(c), MaxPolicies)} :
              c \in CompartmentIds \cup {TenancyId}}

InitFilter ==
    /\ pc = "policy"
    /\ outcome = "running"
    /\ groups = <<>>
    /\ group_names \in SUBSET GroupNames
    /\ \E input \in FilterInputs :
          /\ all_compartment_ids = <<input[1]>>
          /\ list_policies_calls = <<input[1]>>
          /\ policies = input[2]
          /\ fetched = <<Returns(input[2])>>
    /\ ci = 1
    /\ pi = 1
    /\ policy_compartment_name = <<>>
    /\ si = 1
    /\ translated = <<>>
    /\ tr_pos = 1
    /\ relevant_policies = <<>>
    /\ all_relevant_policies = <<>>
    /\ compartment_cache = <<>>
    /\ policy_groups = <<>>
    /\ memberships = Raises
    /\ groups_fetched = 0
    /\ list_compartments_calls = <<>>
    /\ resolutions = EmptyBag
    /\ lookups_ok = EmptyBag
    /\ lookups_failed = EmptyBag
    /\ lookup_names = {}
    /\ warnings = EmptyBag
    /\ last_resolved = NotResolved

NextFilter ==
    \/ ResolvePolicyCompartment
    \/ SkipStatement
    \/ MatchStatement
    \/ ReplaceCompartment
    \/ AppendRelevant
    \/ NextPolicy
    \/ FilterReturn

SpecFilter ==
    InitFilter /\ [][NextFilter]_vars

(***************************************************************************)
(* Vocabulary of the properties.                                           *)
(***************************************************************************)
\* pattern occurs in text as a plain substring, character by character
Occurs(pattern, text) ==
    \E offset \in 0..Len(text) :
        /\ offset + Len(pattern) <= Len(text)
        /\ \A k \in 1..Len(pattern) : text[offset + k] = pattern[k]

\* the statement names the group: 'group ' followed by the lower-cased name,
\* bare or in single or in double quotes, in the lower-cased statement
NamesGroup(statement, group_name) ==
    \/ Occurs(GROUP_SP \o lower(group_name), lower(statement))
    \/ Occurs(GROUP_SP \o SQ \o lower(group_name) \o SQ, lower(statement))
    \/ Occurs(GROUP_SP \o DQ \o lower(group_name) \o DQ, lower(statement))

IsRelevant(statement, names) ==
    \E g \in names : NamesGroup(statement, g)

\* <<policy name, statement>> of the relevant statements among the first n
\* statements of a policy, in statement order
RECURSIVE RelevantOfPolicy(_, _, _)
RelevantOfPolicy(policy, n, names) ==
    IF n = 0 THEN <<>>
    ELSE RelevantOfPolicy(policy, n - 1, names)
         \o (IF IsRelevant(policy.statements[n], names)
             THEN << <<policy.name, policy.statements[n]>> >>
             ELSE <<>>)

\* the same over the first n policies of a list, in policy order
RECURSIVE RelevantOfPolicies(_, _, _)
RelevantOfPolicies(ps, n, names) ==
    IF n = 0 THEN <<>>
    ELSE RelevantOfPolicies(ps, n - 1, names)
         \o RelevantOfPolicy(ps[n], Len(ps[n].statements), names)

\* the same over the first n list_policies responses, in call order; a
\* failed call contributes nothing
RECURSIVE RelevantOfScan(_, _, _)
RelevantOfScan(responses, n, names) ==
    IF n = 0 THEN <<>>
    ELSE RelevantOfScan(responses, n - 1, names)
         \o (IF responses[n].ok
             THEN RelevantOfPolicies(responses[n].data,
                                     Len(responses[n].data), names)
             ELSE <<>>)

\* the texts a statement can be displayed as: each compartment id found
\* replaced by a name of the service, by "root" or by the id itself
RECURSIVE Displayed(_, _)
Displayed(statement, pos) ==
    LET m == Search(statement, pos)
    IN  IF ~m.found THEN {SubSeq(statement, pos, Len(statement))}
        ELSE {SubSeq(statement, pos, m.start - 1) \o COMPARTMENT_SP \o n \o rest :
                 n \in CompartmentNames \cup {ROOT, m.id},
                 rest \in Displayed(statement, m.end + 1)}

\* records is, record by record, a display of the expected statements
Displays(records, expected) ==
    /\ Len(records) = Len(expected)
    /\ \A k \in 1..Len(records) :
          /\ records[k][1] = expected[k][1]
          /\ records[k][3] \in Displayed(expected[k][2], 1)

KeyOf(record) ==
    <<record[1], record[2]>>

\* the texts of the records with the given key, in record order
RECURSIVE TextsOf(_, _)
TextsOf(records, key) ==
    IF records = <<>> THEN <<>>
    ELSE (IF KeyOf(Head(records)) = key THEN <<Head(records)[3]>> ELSE <<>>)
         \o TextsOf(Tail(records), key)

FirstIndex(records, key) ==
    CHOOSE k \in 1..Len(records) :
        /\ KeyOf(records[k]) = key
        /\ \A j \in 1..(k - 1) : KeyOf(records[j]) # key

RECURSIVE SumLen(_, _)
SumLen(entries, n) ==
    IF n = 0 THEN 0 ELSE SumLen(entries, n - 1) + Len(entries[n].statements)

\* number of calls of the service's get_compartment for an id
Lookups(ok, failed, id) ==
    CopiesIn(id, ok) + CopiesIn(id, failed)

\* this step is a call of get_compartment_name(id)
Resolving(id) ==
    CopiesIn(id, resolutions') = CopiesIn(id, resolutions) + 1

IsPrefix(s, t) ==
    Len(s) <= Len(t) /\ s = SubSeq(t, 1, Len(s))

(***************************************************************************)
(* Properties.                                                             *)
(***************************************************************************)
\* C1: with a non-empty group set, whatever list_compartments returned and
\* whichever list_policies calls failed, no error escapes, the run goes on
\* after a failed call, list_policies is called once for every entry of the
\* scan list, the ones after a failed call included, and at the end the
\* report holds a display of every relevant statement of every compartment
\* whose policies were fetched.
C1_FailureDoesNotAbortScan ==
    group_names # {} =>
        /\ outcome # "error"
        /\ (pc # "done" /\ fetched # <<>> /\ ~fetched[Len(fetched)].ok)
              => ENABLED Next
        /\ IsPrefix(list_policies_calls, all_compartment_ids)
        /\ Len(fetched) = Len(list_policies_calls)
        /\ pc = "done" =>
              /\ list_policies_calls = all_compartment_ids
              /\ LET expected == RelevantOfScan(fetched, Len(fetched), group_names)
                 IN  \A k \in 1..Len(expected) :
                        \E i \in DOMAIN policy_groups :
                           /\ policy_groups[i].key[1] = expected[k][1]
                           /\ \E j \in DOMAIN policy_groups[i].statements :
                                 policy_groups[i].statements[j]
                                     \in Displayed(expected[k][2], 1)

\* a finished run in which a list_policies call failed, a later one returned
\* policies, and the report holds statements
C1_Witness ==
    /\ pc = "done"
    /\ outcome = "report"
    /\ \E k \in 1..Len(fetched) :
          /\ ~fetched[k].ok
          /\ \E l \in (k + 1)..Len(fetched) :
                /\ fetched[l].ok
                /\ RelevantOfPolicies(fetched[l].data, Len(fetched[l].data),
                                      group_names) # <<>>

\* C2: while filter_policies_for_groups runs, its result list holds exactly
\* one record, in order, for every statement processed so far that names a
\* group of the set, and none for any other statement; with the empty group
\* set the list is empty.
C2_RecordIffGroupNamed ==
    LET done == IF pc \in {"statement", "translate"}
                THEN RelevantOfPolicies(policies, pi - 1, group_names)
                     \o RelevantOfPolicy(policies[pi], si - 1, group_names)
                ELSE RelevantOfPolicies(policies, pi - 1, group_names)
    IN  /\ Displays(relevant_policies, done)
        /\ pc = "translate" => IsRelevant(policies[pi].statements[si], group_names)
        /\ group_names = {} => relevant_policies = <<>>

\* a statement that names two groups of the set has been processed and has
\* given one record
C2_Witness ==
    /\ pc = "statement"
    /\ si > 1
    /\ Cardinality({g \in group_names :
                       NamesGroup(policies[pi].statements[si - 1], g)}) >= 2
    /\ Cardinality({k \in DOMAIN relevant_policies :
                       relevant_policies[k][3]
                           \in Displayed(policies[pi].statements[si - 1], 1)}) = 1

\* C3: when the user has no membership, or the membership listing or a
\* get_group call fails, get_user_groups returns no group and the run ends
\* in the no-groups outcome with no list_compartments, list_policies or
\* get_compartment call.
C3_NoGroupsNoScan ==
    (/\ pc # "start"
     /\ \/ ~memberships.ok
        \/ memberships.data = <<>>
        \/ groups_fetched < Len(memberships.data))
    => /\ groups = <<>>
       /\ pc = "done"
       /\ outcome = "no_groups"
       /\ list_compartments_calls = <<>>
       /\ list_policies_calls = <<>>
       /\ BagToSet(lookups_ok) = {}
       /\ BagToSet(lookups_failed) = {}

\* a get_group call failed after another one had returned a group
C3_Witness ==
    /\ pc = "done"
    /\ memberships.ok
    /\ groups_fetched >= 1
    /\ groups_fetched < Len(memberships.data)

\* C4: with a non-empty group set the list_policies calls are made for the
\* compartments list_compartments returned, in the order returned, and then
\* for the tenancy id, which is last; when list_compartments failed or
\* returned nothing the tenancy id is the only one.
C4_RootScannedLast ==
    (group_names # {} /\ list_compartments_calls # <<>>) =>
        LET returned == IF list_compartments_calls[1].ok
                        THEN list_compartments_calls[1].data
                        ELSE <<>>
            expected == [i \in 1..(Len(returned) + 1) |->
                            IF i <= Len(returned) THEN returned[i].id
                            ELSE TenancyId]
        IN  /\ Len(list_compartments_calls) = 1
            /\ IsPrefix(list_policies_calls, expected)
            /\ pc = "done" => list_policies_calls = expected

\* a finished run over two returned compartments, returned in the order b, a
C4_Witness ==
    /\ pc = "done"
    /\ list_compartments_calls # <<>>
    /\ list_compartments_calls[1].ok
    /\ Len(list_compartments_calls[1].data) = 2
    /\ list_compartments_calls[1].data[1].id = CompB
    /\ Len(list_policies_calls) = 3

\* C5: the report groups the flat list by (policy name, compartment name):
\* the keys are distinct and in the order of their first record, each key
\* holds the texts of its records in the order produced, duplicates kept,
\* the group lengths sum to the number of records, and the flat list is in
\* scan order, then policy order, then statement order.
C5_GroupingKeepsOrder ==
    (pc = "done" /\ outcome = "report") =>
        LET flat == all_relevant_policies
            n == Len(policy_groups)
        IN  /\ Displays(flat, RelevantOfScan(fetched, Len(fetched), group_names))
            /\ {policy_groups[i].key : i \in 1..n}
                   = {KeyOf(flat[k]) : k \in 1..Len(flat)}
            /\ \A i, j \in 1..n :
                  i < j => FirstIndex(flat, policy_groups[i].key)
                              < FirstIndex(flat, policy_groups[j].key)
            /\ \A i \in 1..n :
                  policy_groups[i].statements = TextsOf(flat, policy_groups[i].key)
            /\ SumLen(policy_groups, n) = Len(flat)

\* a report in which a key comes back after a record of another key and
\* holds the same text twice
C5_Witness ==
    /\ pc = "done"
    /\ outcome = "report"
    /\ \E a, b, c \in 1..Len(all_relevant_policies) :
          /\ a < b /\ b < c
          /\ KeyOf(all_relevant_policies[a]) = KeyOf(all_relevant_policies[c])
          /\ KeyOf(all_relevant_policies[a]) # KeyOf(all_relevant_policies[b])
    /\ \E i \in DOMAIN policy_groups :
       \E j, k \in DOMAIN policy_groups[i].statements :
          j # k /\ policy_groups[i].statements[j] = policy_groups[i].statements[k]

\* C6: once get_compartment has returned for a non-root id, no step calls
\* get_compartment for that id again, and every later get_compartment_name
\* of the id returns the name that call returned.
C6_OneLookupPerId ==
    [][\A id \in BagToSet(lookups_ok) :
          /\ CopiesIn(id, lookups_ok) = 1
          /\ CopiesIn(id, lookups_ok') = 1
          /\ CopiesIn(id, lookups_failed') = CopiesIn(id, lookups_failed)
          /\ Resolving(id) =>
                /\ last_resolved'.id = id
                /\ <<id, last_resolved'.name>> \in lookup_names
                /\ Cardinality({p \in lookup_names : p[1] = id}) = 1]_vars

\* an id was looked up with success at once and has been resolved again
C6_Witness ==
    \E id \in BagToSet(lookups_ok) :
        /\ id # TenancyId
        /\ CopiesIn(id, lookups_failed) = 0
        /\ CopiesIn(id, resolutions) >= 2

\* C7: a step in which get_compartment fails for an id does not end the
\* run, returns the id itself and leaves the cache as it was; an id whose
\* lookups have all failed is not in the cache and has cost one
\* get_compartment call per get_compartment_name call.
C7_FallbackNotCached ==
    [][/\ \A id \in BagToSet(lookups_failed') :
             CopiesIn(id, lookups_failed') > CopiesIn(id, lookups_failed) =>
                /\ Resolving(id)
                /\ last_resolved' = [id |-> id, name |-> id]
                /\ compartment_cache' = compartment_cache
                /\ CopiesIn(id, warnings') = CopiesIn(id, warnings) + 1
                /\ outcome' = "running"
                /\ pc' # "done"
       /\ \A id \in BagToSet(resolutions') :
             (id # TenancyId /\ CopiesIn(id, lookups_ok') = 0) =>
                /\ id \notin DOMAIN compartment_cache'
                /\ CopiesIn(id, lookups_failed') = CopiesIn(id, resolutions')]_vars

\* the lookup of an id has failed at two resolutions and never succeeded
C7_Witness ==
    \E id \in BagToSet(lookups_failed) :
        /\ CopiesIn(id, lookups_failed) >= 2
        /\ CopiesIn(id, lookups_ok) = 0

\* C8: every get_compartment_name of the tenancy id returns "root" and
\* calls nothing, whatever the cache holds and whatever succeeded or failed
\* before; the cache holds nothing but "root" for the tenancy id.
C8_RootWithoutLookup ==
    [][/\ Resolving(TenancyId) =>
             /\ last_resolved' = [id |-> TenancyId, name |-> ROOT]
             /\ lookups_ok' = lookups_ok
             /\ lookups_failed' = lookups_failed
             /\ warnings' = warnings
       /\ TenancyId \in DOMAIN compartment_cache' =>
             compartment_cache'[TenancyId] = ROOT
       /\ Lookups(lookups_ok', lookups_failed', TenancyId) = 0]_vars

\* the tenancy id has been resolved twice, after a lookup that failed and a
\* lookup that returned
C8_Witness ==
    /\ CopiesIn(TenancyId, resolutions) >= 2
    /\ BagToSet(lookups_failed) # {}
    /\ BagToSet(lookups_ok) # {}

\* C9 as stated: once an id has been resolved, by a lookup that returned or
\* by the fallback, its value is in the cache, and no later step calls
\* get_compartment for it: every later resolution returns the cached value.
C9_AnyResolutionCached ==
    [][\A id \in BagToSet(resolutions) :
          /\ id \in DOMAIN compartment_cache
          /\ Lookups(lookups_ok', lookups_failed', id)
                = Lookups(lookups_ok, lookups_failed, id)
          /\ Resolving(id) => last_resolved'.name = compartment_cache[id]]_vars

\* C9 amended: the cache holds exactly the ids whose lookup returned, with
\* the name returned, and the tenancy id once resolved; an entry never
\* changes and a resolution of a cached id returns the entry without a
\* call; an id resolved only by the fallback is not cached and its next
\* resolution calls get_compartment again.
C9_OnlySuccessCached ==
    [][/\ DOMAIN compartment_cache'
             = BagToSet(lookups_ok')
               \cup (IF CopiesIn(TenancyId, resolutions') > 0
                     THEN {TenancyId} ELSE {})
       /\ \A id \in DOMAIN compartment_cache :
             /\ compartment_cache'[id] = compartment_cache[id]
             /\ Lookups(lookups_ok', lookups_failed', id)
                   = Lookups(lookups_ok, lookups_failed, id)
             /\ Resolving(id) =>
                   last_resolved' = [id |-> id, name |-> compartment_cache[id]]
       /\ \A id \in BagToSet(resolutions) \ DOMAIN compartment_cache :
             (Resolving(id) /\ id # TenancyId) =>
                Lookups(lookups_ok', lookups_failed', id)
                   = Lookups(lookups_ok, lookups_failed, id) + 1]_vars

\* the lookup of an id failed, a later one returned, and the id has been
\* resolved again from the cache
C9_Witness ==
    \E id \in BagToSet(lookups_failed) :
        /\ CopiesIn(id, lookups_ok) = 1
        /\ CopiesIn(id, resolutions)
              > Lookups(lookups_ok, lookups_failed, id)

\* the filter is processing a policy none of whose statements names a group
InIrrelevantPolicy ==
    /\ pc \in {"policy", "statement", "translate"}
    /\ pi <= Len(policies)
    /\ \A j \in DOMAIN policies[pi].statements :
          ~IsRelevant(policies[pi].statements[j], group_names)

\* C10 as stated: no step of the processing of a policy none of whose
\* statements is relevant calls get_compartment, prints a resolution
\* warning or changes the cache.
C10_IrrelevantPolicyNoResolver ==
    [][InIrrelevantPolicy =>
          /\ lookups_ok' = lookups_ok
          /\ lookups_failed' = lookups_failed
          /\ warnings' = warnings
          /\ compartment_cache' = compartment_cache]_vars

\* C10 amended: the processing of such a policy resolves the policy's own
\* compartment id once, before its statements are examined, and nothing
\* else: at most one get_compartment call and one warning, both for that
\* id, and at most one new cache entry, for that id; no statement of the
\* policy is translated and the steps over its statements leave the
\* resolver as it was.
C10_IrrelevantPolicyResolvesOwnCompartment ==
    [][InIrrelevantPolicy =>
          IF pc = "policy"
          THEN LET own == policies[pi].compartment_id
               IN  /\ Resolving(own)
                   /\ \A id \in BagToSet(resolutions') \ {own} :
                         CopiesIn(id, resolutions') = CopiesIn(id, resolutions)
                   /\ \A id \in BagToSet(lookups_ok' (+) lookups_failed') \ {own} :
                         Lookups(lookups_ok', lookups_failed', id)
                            = Lookups(lookups_ok, lookups_failed, id)
                   /\ Lookups(lookups_ok', lookups_failed', own)
                         <= Lookups(lookups_ok, lookups_failed, own) + 1
                   /\ (own = TenancyId \/ own \in DOMAIN compartment_cache) =>
                         (lookups_ok' = lookups_ok
                          /\ lookups_failed' = lookups_failed)
                   /\ \A id \in BagToSet(warnings') :
                         CopiesIn(id, warnings')
                            <= CopiesIn(id, warnings) + (IF id = own THEN 1 ELSE 0)
                   /\ DOMAIN compartment_cache' \subseteq
                         DOMAIN compartment_cache \cup {own}
                   /\ \A id \in DOMAIN compartment_cache :
                         /\ id \in DOMAIN compartment_cache'
                         /\ compartment_cache'[id] = compartment_cache[id]
          ELSE /\ UNCHANGED resolver
               /\ pc' # "translate"]_vars

\* a policy with no relevant statement is being processed and the lookup of
\* its own compartment id has just called get_compartment
C10_Witness ==
    /\ InIrrelevantPolicy
    /\ pc = "statement"
    /\ policies[pi].compartment_id # TenancyId
    /\ last_resolved.id = policies[pi].compartment_id
    /\ CopiesIn(policies[pi].compartment_id, resolutions) = 1
    /\ Lookups(lookups_ok, lookups_failed, policies[pi].compartment_id) = 1

====
